---- MODULE Spec2Model ----
(***************************************************************************)
(* Model of core-addon/DataCollection.js: the composition and routing of   *)
(* telemetry pings handed to browser.firefoxPrivilegedApi                  *)
(* .submitEncryptedPing.                                                   *)
(*                                                                         *)
(* JavaScript values that the code inspects dynamically (typeof,           *)
(* truthiness, === undefined) are tagged records [t, v]. JavaScript        *)
(* objects used as maps (the payload, its nested objects) are TLA+         *)
(* functions from property names to values; {} is the empty function.      *)
(***************************************************************************)
EXTENDS Integers, Sequences, FiniteSets, TLC

\* ---------------------------------------------------------------- bounds
\* Number of send calls that may be in flight at the same time.
MaxCalls == 2
\* Longest "race" array of a demographic answer.
MaxRaceLen == 2

Calls == 1..MaxCalls

\* ------------------------------------------------------------- JS values
Str(s) == [t |-> "string", v |-> s]
Num(s) == [t |-> "number", v |-> s]
Undefined == [t |-> "undefined", v |-> "undefined"]

\* typeof x
TypeOf(x) == x.t

\* !x : JavaScript falsiness of the values above.
Falsy(x) ==
  \/ x.t = "undefined"
  \/ x.t = "string" /\ x.v = ""
  \/ x.t = "number" /\ x.v \in {"0", "NaN"}

\* o[k] = v on a plain object.
SetProp(o, k, v) == [x \in (DOMAIN o) \cup {k} |-> IF x = k THEN v ELSE o[x]]

EmptyObject == <<>>

\* --------------------------------------------------------- key material
CORE_ENCRYPTION_KEY_ID == "core"

CORE_ENCRYPTION_JWK ==
  [crv |-> "P-256", kid |-> "core", kty |-> "EC",
   x |-> "muvXFcGjbk2uZCCa8ycoH8hVxeDCGPQ9Ed2-QHlTtuc",
   y |-> "xrLUev8_yUrSFAlabnHInvU4JKc6Ew3YXaaoDloQxw8"]

DISCARDED_KEY_ID == "discarded"

DISCARDED_JWK ==
  [crv |-> "P-256", kty |-> "EC",
   x |-> "XLkI3NaY3-AF2nRMspC63BT1u0Y3moXYSfss7VuQ0mk",
   y |-> "SB0KnIW-pqk85OIEYZenoNkEyOOp5GeWQhS1KeRtEUE"]

SCHEMA_VERSION == 1

\* ---------------------------------------------------------------- inputs
\* Participant ids a caller may pass: two valid ones, the empty string, a
\* missing argument and a truthy non-string.
RallyIds == {Str("R1"), Str("R2"), Str(""), Undefined, Num("42")}

\* Study ids a caller may pass; Undefined is the omitted argument.
StudyIds == {Undefined, Str("study-a"), Str("pioneer-core")}

\* Arguments of a direct sendPing call.
PayloadTypes == {"custom-ping"}
Payloads == {("k" :> "v")}
Namespaces == {Str("pioneer-core"), Str("study-a")}
Keys == {[keyId |-> CORE_ENCRYPTION_KEY_ID, key |-> CORE_ENCRYPTION_JWK],
         [keyId |-> DISCARDED_KEY_ID, key |-> DISCARDED_JWK]}

\* Demographic answers: [t |-> "object", f |-> fields] or an omitted argument.
Obj(f) == [t |-> "object", f |-> f]
NoData == [t |-> "undefined", f |-> EmptyObject]

\* The six mapped question identifiers, "race", and keys outside the mapping.
Questions == {"age", "gender", "hispanicLatinoSpanishOrigin", "school",
              "income", "zipCode"}
OtherKeys == {"origin", "education", "races", "foo"}
AnswerValues == {"x", "y"}
Categories == {"a", "b"}

RaceArrays == UNION {[1..n -> Categories] : n \in 0..MaxRaceLen}

\* The "race" answer: absent, or an array of categories.
RaceChoices ==
  {[present |-> FALSE, v |-> <<>>]} \cup
  {[present |-> TRUE, v |-> r] : r \in RaceArrays}

\* The answers object in which question k holds q[k] unless q[k] = Absent,
\* "race" holds r.v when r.present, and every key of others holds "z".
Absent == "-"
Answers(q, r, others) ==
  Obj([k \in {x \in Questions : q[x] # Absent}
              \cup (IF r.present THEN {"race"} ELSE {})
              \cup others |->
         IF k = "race" THEN r.v
         ELSE IF k \in Questions THEN q[k]
         ELSE "z"])

\* The answers used while several calls interleave.
SomeAnswers ==
  {NoData,
   Obj(EmptyObject),
   Obj([age |-> "x", race |-> <<"a", "b">>, origin |-> "z"])}

\* ----------------------------------------------------------------- state
VARIABLES
  pc,          \* per call: "idle", "awaiting", "resolved" or "rejected"
  args,        \* per call: the public operation and the arguments it got
  error,       \* per call: the error a rejected call surfaced to its caller
  submitCount, \* per call: invocations of submitEncryptedPing it issued
  pings,       \* every invocation of submitEncryptedPing so far
  outcome,     \* per call: state of the promise submitEncryptedPing returned
  console      \* diagnostics written so far

vars == <<pc, args, error, submitCount, pings, outcome, console>>

NoArgs ==
  [op |-> "none", rallyId |-> Undefined, studyAddonId |-> Undefined,
   data |-> NoData, payloadType |-> "", payload |-> EmptyObject,
   namespace |-> Undefined, keyId |-> "", key |-> EmptyObject]

Init ==
  /\ pc = [c \in Calls |-> "idle"]
  /\ args = [c \in Calls |-> NoArgs]
  /\ error = [c \in Calls |-> "none"]
  /\ submitCount = [c \in Calls |-> 0]
  /\ pings = {}
  /\ outcome = [c \in Calls |-> "none"]
  /\ console = {}

\* ------------------------------------------------------------- sendPing
\* A `throw` inside an async function: the call's promise rejects with the
\* error and nothing else of the call runs.
Throw(c, e) ==
  /\ pc' = [pc EXCEPT ![c] = "rejected"]
  /\ error' = [error EXCEPT ![c] = e]
  /\ UNCHANGED <<submitCount, pings, outcome, console>>

InvalidRallyId_NoTypeCheck(rallyId) == Falsy(rallyId)

InvalidRallyId(rallyId) == Falsy(rallyId) \/ TypeOf(rallyId) # "string"

Options_StudyNameFromType(rallyId, payloadType, namespace, keyId, key) ==
  [studyName |-> Str(payloadType),
   addPioneerId |-> TRUE,
   overridePioneerId |-> rallyId,
   encryptionKeyId |-> keyId,
   publicKey |-> key,
   schemaName |-> payloadType,
   schemaVersion |-> SCHEMA_VERSION,
   schemaNamespace |-> namespace]

Options(rallyId, payloadType, namespace, keyId, key) ==
  [studyName |-> namespace,
   addPioneerId |-> TRUE,
   overridePioneerId |-> rallyId,
   encryptionKeyId |-> keyId,
   publicKey |-> key,
   schemaName |-> payloadType,
   schemaVersion |-> SCHEMA_VERSION,
   schemaNamespace |-> namespace]

\* browser.firefoxPrivilegedApi.submitEncryptedPing(type, payload, options):
\* the call is recorded and its promise is pending; sendPing awaits it.
SubmitEncryptedPing(c, type, payload, options) ==
  /\ pings' = pings \cup
       {[call |-> c, type |-> type, payload |-> payload, options |-> options]}
  /\ submitCount' = [submitCount EXCEPT ![c] = @ + 1]
  /\ outcome' = [outcome EXCEPT ![c] = "pending"]
  /\ pc' = [pc EXCEPT ![c] = "awaiting"]
  /\ UNCHANGED <<error, console>>

sendPing(c, rallyId, payloadType, payload, namespace, keyId, key) ==
  IF InvalidRallyId(rallyId)
  THEN Throw(c, "Error: DataCollection.sendPing - invalid Rally id")
  ELSE SubmitEncryptedPing(c, "pioneer-study", payload,
         Options(rallyId, payloadType, namespace, keyId, key))

\* The promise of submitEncryptedPing fulfils: the .then callback logs the
\* options and payload, the awaited chain fulfils and sendPing returns.
SubmitFulfilled(c) ==
  /\ pc[c] = "awaiting"
  /\ outcome[c] = "pending"
  /\ outcome' = [outcome EXCEPT ![c] = "fulfilled"]
  /\ console' = console \cup {[level |-> "debug", call |-> c]}
  /\ pc' = [pc EXCEPT ![c] = "resolved"]
  /\ UNCHANGED <<args, error, submitCount, pings>>

\* As SubmitRejected, with the .catch callback rethrowing after it logged.
SubmitRejected_Rethrows(c) ==
  /\ pc[c] = "awaiting"
  /\ outcome[c] = "pending"
  /\ outcome' = [outcome EXCEPT ![c] = "rejected"]
  /\ console' = console \cup {[level |-> "error", call |-> c]}
  /\ pc' = [pc EXCEPT ![c] = "rejected"]
  /\ error' = [error EXCEPT ![c] = "TransmissionError"]
  /\ UNCHANGED <<args, submitCount, pings>>

\* The promise of submitEncryptedPing rejects: the .catch callback logs the
\* error and swallows it, the awaited chain fulfils and sendPing returns.
SubmitRejected(c) ==
  /\ pc[c] = "awaiting"
  /\ outcome[c] = "pending"
  /\ outcome' = [outcome EXCEPT ![c] = "rejected"]
  /\ console' = console \cup {[level |-> "error", call |-> c]}
  /\ pc' = [pc EXCEPT ![c] = "resolved"]
  /\ UNCHANGED <<args, error, submitCount, pings>>

\* ------------------------------------------------------- _sendEmptyPing
EmptyPingKeyId_AlwaysDiscarded(namespace) == DISCARDED_KEY_ID

EmptyPingKeyId(namespace) ==
  IF namespace = Str("pioneer-core") THEN CORE_ENCRYPTION_KEY_ID
  ELSE DISCARDED_KEY_ID

EmptyPingPublicKey(namespace) ==
  IF namespace = Str("pioneer-core") THEN CORE_ENCRYPTION_JWK
  ELSE DISCARDED_JWK

_sendEmptyPing(c, rallyId, payloadType, namespace) ==
  sendPing(c, rallyId, payloadType, EmptyObject, namespace,
           EmptyPingKeyId(namespace), EmptyPingPublicKey(namespace))

\* ---------------------------------------------------- sendEnrollmentPing
EnrollmentNamespace_AlwaysCore(studyAddonId) == Str("pioneer-core")

EnrollmentNamespace(studyAddonId) ==
  IF studyAddonId # Undefined THEN studyAddonId ELSE Str("pioneer-core")

sendEnrollmentPing(c, rallyId, studyAddonId) ==
  _sendEmptyPing(c, rallyId, "pioneer-enrollment",
                 EnrollmentNamespace(studyAddonId))

\* ------------------------------------------------------ sendDeletionPing
MissingStudyId_Never(studyAddonId) == FALSE

MissingStudyId(studyAddonId) == studyAddonId = Undefined

sendDeletionPing(c, rallyId, studyAddonId) ==
  IF MissingStudyId(studyAddonId)
  THEN Throw(c, "Error: DataCollection - the deletion-request ping requires a study id")
  ELSE _sendEmptyPing(c, rallyId, "deletion-request", studyAddonId)

\* --------------------------------------------- sendDemographicSurveyPing
\* Object.entries(FIELD_MAPPING), in insertion order.
FIELD_MAPPING ==
  << <<"age", "age">>,
     <<"gender", "gender">>,
     <<"hispanicLatinoSpanishOrigin", "origin">>,
     <<"school", "education">>,
     <<"income", "income">>,
     <<"zipCode", "zipCode">> >>

\* The for..of loop over the mapping, from entry i on.
RECURSIVE MapFields(_, _, _)
MapFields(f, i, processed) ==
  IF i > Len(FIELD_MAPPING) THEN processed
  ELSE LET originalField == FIELD_MAPPING[i][1]
           newName == FIELD_MAPPING[i][2]
       IN  IF originalField \in DOMAIN f
           THEN MapFields(f, i + 1,
                          SetProp(processed, newName, (f[originalField] :> TRUE)))
           ELSE MapFields(f, i + 1, processed)

\* As ReduceRace, with the accumulator started afresh at every element.
ReduceRace_LastOnly(race, i, a) ==
  IF Len(race) = 0 THEN a
  ELSE SetProp(EmptyObject, race[Len(race)], TRUE)

\* race.reduce((a, b) => ((a[b] = true), a), acc), from element i on.
RECURSIVE ReduceRace(_, _, _)
ReduceRace(race, i, a) ==
  IF i > Len(race) THEN a
  ELSE ReduceRace(race, i + 1, SetProp(a, race[i], TRUE))

\* As Processed, with the payload started from the unmapped input fields.
Processed_KeepsUnmapped(f) ==
  LET start == [k \in (DOMAIN f) \ (Questions \cup {"race"}) |-> f[k]]
      processed == MapFields(f, 1, start)
  IN  IF "race" \in DOMAIN f
      THEN SetProp(processed, "races", ReduceRace(f["race"], 1, EmptyObject))
      ELSE processed

Processed(f) ==
  LET processed == MapFields(f, 1, EmptyObject)
  IN  IF "race" \in DOMAIN f
      THEN SetProp(processed, "races", ReduceRace(f["race"], 1, EmptyObject))
      ELSE processed

DemographicKeyId_Discarded == DISCARDED_KEY_ID

DemographicKeyId == CORE_ENCRYPTION_KEY_ID

sendDemographicSurveyPing(c, rallyId, data) ==
  IF data.t # "object"
  THEN \* `originalField in data` on a non-object
       Throw(c, "TypeError")
  ELSE sendPing(c, rallyId, "demographic-survey", Processed(data.f),
                Str("pioneer-core"), DemographicKeyId, CORE_ENCRYPTION_JWK)

\* ------------------------------------------------------- the callers
CallEnrollment(c) ==
  /\ pc[c] = "idle"
  /\ \E rallyId \in RallyIds, studyAddonId \in StudyIds :
       /\ args' = [args EXCEPT ![c] =
            [NoArgs EXCEPT !.op = "sendEnrollmentPing", !.rallyId = rallyId,
                           !.studyAddonId = studyAddonId]]
       /\ sendEnrollmentPing(c, rallyId, studyAddonId)

CallDeletion(c) ==
  /\ pc[c] = "idle"
  /\ \E rallyId \in RallyIds, studyAddonId \in StudyIds :
       /\ args' = [args EXCEPT ![c] =
            [NoArgs EXCEPT !.op = "sendDeletionPing", !.rallyId = rallyId,
                           !.studyAddonId = studyAddonId]]
       /\ sendDeletionPing(c, rallyId, studyAddonId)

DemographicCall(c, rallyId, data) ==
  /\ pc[c] = "idle"
  /\ args' = [args EXCEPT ![c] =
       [NoArgs EXCEPT !.op = "sendDemographicSurveyPing", !.rallyId = rallyId,
                      !.data = data]]
  /\ sendDemographicSurveyPing(c, rallyId, data)

CallDemographicSurvey(c) ==
  \E rallyId \in RallyIds, data \in SomeAnswers : DemographicCall(c, rallyId, data)

CallSendPing(c) ==
  /\ pc[c] = "idle"
  /\ \E rallyId \in RallyIds, payloadType \in PayloadTypes, payload \in Payloads,
        namespace \in Namespaces, k \in Keys :
       /\ args' = [args EXCEPT ![c] =
            [NoArgs EXCEPT !.op = "sendPing", !.rallyId = rallyId,
                           !.payloadType = payloadType, !.payload = payload,
                           !.namespace = namespace, !.keyId = k.keyId,
                           !.key = k.key]]
       /\ sendPing(c, rallyId, payloadType, payload, namespace, k.keyId, k.key)

Next ==
  \E c \in Calls :
    \/ CallEnrollment(c)
    \/ CallDeletion(c)
    \/ CallDemographicSurvey(c)
    \/ CallSendPing(c)
    \/ SubmitFulfilled(c)
    \/ SubmitRejected(c)

Spec == Init /\ [][Next]_vars

\* One demographic-survey call, with a valid participant id, over every
\* answers object of the bounded input space.
SurveyStart ==
  /\ pc[1] = "idle"
  /\ \E rallyId \in {Str("R1"), Str("R2")},
        q \in [Questions -> AnswerValues \cup {Absent}], r \in RaceChoices,
        others \in SUBSET OtherKeys :
       DemographicCall(1, rallyId, Answers(q, r, others))

SurveyNext ==
  \/ SurveyStart
  \/ SubmitFulfilled(1)
  \/ SubmitRejected(1)

SurveySpec == Init /\ [][SurveyNext]_vars

\* ============================================================ properties
\* What the documentation calls a valid participant id.
ValidParticipantId(r) == r.t = "string" /\ r.v # ""

\* The call has been made.
Started(c) == pc[c] # "idle"

\* The invocations of submitEncryptedPing issued by call c.
PingsOf(c) == {p \in pings : p.call = c}

InvalidRallyIdError == "Error: DataCollection.sendPing - invalid Rally id"
MissingStudyIdError ==
  "Error: DataCollection - the deletion-request ping requires a study id"

\* The kind label and the namespace the documentation gives each operation.
KindLabel(a) ==
  CASE a.op = "sendEnrollmentPing" -> "pioneer-enrollment"
    [] a.op = "sendDeletionPing" -> "deletion-request"
    [] a.op = "sendDemographicSurveyPing" -> "demographic-survey"
    [] OTHER -> a.payloadType

RoutedNamespace(a) ==
  CASE a.op = "sendEnrollmentPing" ->
         IF a.studyAddonId = Undefined THEN Str("pioneer-core") ELSE a.studyAddonId
    [] a.op = "sendDeletionPing" -> a.studyAddonId
    [] a.op = "sendDemographicSurveyPing" -> Str("pioneer-core")
    [] OTHER -> a.namespace

\* ------------------------------------------------------------------- C1
\* C1: a send call whose participant id is empty, missing or not a string
\* (sendPing, sendEnrollmentPing, sendDeletionPing with a study id,
\* sendDemographicSurveyPing with an answers object) is rejected towards its
\* caller with the invalid-id error and never invokes submitEncryptedPing.
C1_InvalidIdRejected ==
  \A c \in Calls :
    ( /\ Started(c)
      /\ ~ValidParticipantId(args[c].rallyId)
      /\ (args[c].op = "sendDeletionPing" => args[c].studyAddonId # Undefined)
      /\ (args[c].op = "sendDemographicSurveyPing" => args[c].data.t = "object") )
    => /\ pc[c] = "rejected"
       /\ error[c] = InvalidRallyIdError
       /\ submitCount[c] = 0
       /\ PingsOf(c) = {}

\* A non-string participant id was rejected by a funnelled operation while
\* an empty one was rejected by sendPing itself.
C1_Witness ==
  \E c, d \in Calls :
    /\ args[c].op = "sendDemographicSurveyPing"
    /\ args[c].data.t = "object"
    /\ args[c].rallyId = Num("42")
    /\ pc[c] = "rejected"
    /\ args[d].op = "sendPing"
    /\ args[d].rallyId = Str("")
    /\ pc[d] = "rejected"

\* ------------------------------------------------------------------- C2
\* C2: every send call invokes submitEncryptedPing at most once, and when
\* the promise it returned rejects the call still completes normally: no
\* error reaches the caller, an error diagnostic is recorded, and the
\* primitive is not invoked again.
C2_FailureSwallowedNoRetry ==
  \A c \in Calls :
    /\ submitCount[c] <= 1
    /\ outcome[c] = "rejected" =>
         /\ pc[c] = "resolved"
         /\ error[c] = "none"
         /\ [level |-> "error", call |-> c] \in console
         /\ submitCount[c] = 1

\* A submission failed and its call completed.
C2_Witness ==
  \E c \in Calls :
    /\ outcome[c] = "rejected"
    /\ pc[c] = "resolved"
    /\ [level |-> "error", call |-> c] \in console

\* ------------------------------------------------------------------- C3
KeyFollowsNamespace(p) ==
  IF p.options.schemaNamespace = Str("pioneer-core")
  THEN /\ p.options.encryptionKeyId = CORE_ENCRYPTION_KEY_ID
       /\ p.options.publicKey = CORE_ENCRYPTION_JWK
  ELSE /\ p.options.encryptionKeyId = DISCARDED_KEY_ID
       /\ p.options.publicKey = DISCARDED_JWK

\* C3 as stated: in every invocation of submitEncryptedPing, whichever public
\* operation issued it (sendPing included), the key is the core key when the
\* schema namespace is "pioneer-core" and the discard key otherwise.
C3_KeyFollowsNamespaceEverywhere ==
  \A p \in pings : KeyFollowsNamespace(p)

\* C3 as amended: in every invocation of submitEncryptedPing issued through
\* sendEnrollmentPing, sendDeletionPing or sendDemographicSurveyPing the key
\* is the core key when the schema namespace is "pioneer-core" and the
\* discard key otherwise; a direct sendPing passes on the key of its caller.
C3_KeyFollowsNamespaceFunnelled ==
  \A p \in pings :
    /\ args[p.call].op # "sendPing" => KeyFollowsNamespace(p)
    /\ args[p.call].op = "sendPing" =>
         /\ p.options.encryptionKeyId = args[p.call].keyId
         /\ p.options.publicKey = args[p.call].key

\* A deletion ping routed to "pioneer-core" and an enrollment ping routed to
\* a study are both submitted.
C3_Witness ==
  \E p, q \in pings :
    /\ args[p.call].op = "sendDeletionPing"
    /\ p.options.schemaNamespace = Str("pioneer-core")
    /\ args[q.call].op = "sendEnrollmentPing"
    /\ q.options.schemaNamespace = Str("study-a")

\* ------------------------------------------------------------------- C4
\* C4: every invocation of submitEncryptedPing, however the calls in flight
\* interleave, has type "pioneer-study", schemaVersion 1, addPioneerId true,
\* overridePioneerId equal to the non-empty string participant id of the call
\* that issued it, schemaName equal to that call's kind label, and studyName
\* and schemaNamespace both equal to that call's namespace.
C4_OptionsOfIssuingCall ==
  \A p \in pings :
    LET a == args[p.call]
    IN  /\ p.type = "pioneer-study"
        /\ p.options.schemaVersion = 1
        /\ p.options.addPioneerId = TRUE
        /\ p.options.overridePioneerId = a.rallyId
        /\ ValidParticipantId(a.rallyId)
        /\ p.options.schemaName = KindLabel(a)
        /\ p.options.studyName = RoutedNamespace(a)
        /\ p.options.schemaNamespace = RoutedNamespace(a)

\* Two calls with different participant ids, kinds and namespaces are in
\* flight at the same time.
C4_Witness ==
  \E c, d \in Calls :
    /\ pc[c] = "awaiting" /\ pc[d] = "awaiting"
    /\ args[c].rallyId = Str("R1") /\ args[d].rallyId = Str("R2")
    /\ args[c].op = "sendEnrollmentPing" /\ args[c].studyAddonId = Str("study-a")
    /\ args[d].op = "sendDemographicSurveyPing"
    /\ PingsOf(c) # {} /\ PingsOf(d) # {}

\* ------------------------------------------------------------------- C5
\* C5: a send call has completed towards its caller as soon as it has invoked
\* submitEncryptedPing: while the promise of the primitive is still pending,
\* the call is already resolved.
C5_CompletesWhenDispatched ==
  \A c \in Calls : outcome[c] = "pending" => pc[c] = "resolved"

\* ------------------------------------------------------------------- C6
\* C6: sendDeletionPing without a study id is rejected with the missing
\* study id error, whatever the participant id, and never invokes
\* submitEncryptedPing.
C6_DeletionNeedsStudyId ==
  \A c \in Calls :
    (Started(c) /\ args[c].op = "sendDeletionPing"
       /\ args[c].studyAddonId = Undefined)
    => /\ pc[c] = "rejected"
       /\ error[c] = MissingStudyIdError
       /\ submitCount[c] = 0
       /\ PingsOf(c) = {}

\* sendDeletionPing without a study id was rejected both with a valid and
\* with an invalid participant id.
C6_Witness ==
  \E c, d \in Calls :
    /\ args[c].op = "sendDeletionPing" /\ args[d].op = "sendDeletionPing"
    /\ args[c].studyAddonId = Undefined /\ args[d].studyAddonId = Undefined
    /\ args[c].rallyId = Str("R1") /\ args[d].rallyId = Undefined
    /\ pc[c] = "rejected" /\ pc[d] = "rejected"

\* ------------------------------------------------------------------- C7
StudyEnrollment(c) ==
  /\ Started(c)
  /\ args[c].op = "sendEnrollmentPing"
  /\ ValidParticipantId(args[c].rallyId)
  /\ args[c].studyAddonId.t = "string"
  /\ args[c].studyAddonId.v # ""

\* C7 as stated: sendEnrollmentPing(p, s) with a non-empty string p and a
\* non-empty study id s submits one ping with schemaNamespace s,
\* encryptionKeyId "discarded" and payload {}.
C7_StudyEnrollmentDiscarded ==
  \A c \in Calls :
    StudyEnrollment(c) =>
      /\ submitCount[c] = 1
      /\ \A p \in PingsOf(c) :
           /\ p.options.schemaNamespace = args[c].studyAddonId
           /\ p.options.encryptionKeyId = "discarded"
           /\ p.payload = EmptyObject

\* C7 as amended: sendEnrollmentPing(p, s) with a non-empty string p and a
\* non-empty study id s submits one ping with schemaNamespace s and payload
\* {}, whose encryptionKeyId is "discarded" unless s is "pioneer-core", in
\* which case it is "core".
C7_StudyEnrollmentKey ==
  \A c \in Calls :
    StudyEnrollment(c) =>
      /\ submitCount[c] = 1
      /\ PingsOf(c) # {}
      /\ \A p \in PingsOf(c) :
           /\ p.options.schemaNamespace = args[c].studyAddonId
           /\ p.options.encryptionKeyId =
                (IF args[c].studyAddonId = Str("pioneer-core")
                 THEN "core" ELSE "discarded")
           /\ p.payload = EmptyObject

\* An enrollment to study "study-a" was submitted with the discard key.
C7_Witness ==
  \E c \in Calls :
    /\ StudyEnrollment(c)
    /\ args[c].studyAddonId = Str("study-a")
    /\ \E p \in PingsOf(c) : p.options.encryptionKeyId = "discarded"

\* ------------------------------------------------------------------- C8
\* C8: every ping submitted by sendDemographicSurveyPing has schemaName
\* "demographic-survey", schemaNamespace "pioneer-core" and the core key
\* (encryptionKeyId "core" with the core public key), whatever the answers.
C8_SurveyUsesCoreKey ==
  \A p \in pings :
    args[p.call].op = "sendDemographicSurveyPing" =>
      /\ p.options.schemaName = "demographic-survey"
      /\ p.options.schemaNamespace = Str("pioneer-core")
      /\ p.options.encryptionKeyId = "core"
      /\ p.options.publicKey = CORE_ENCRYPTION_JWK
      /\ p.options.publicKey # DISCARDED_JWK

\* A survey with answers (among them keys named like study fields) was
\* submitted.
C8_Witness ==
  \E p \in pings :
    /\ args[p.call].op = "sendDemographicSurveyPing"
    /\ DOMAIN args[p.call].data.f = {"age", "race", "foo"}
    /\ args[p.call].rallyId = Str("R2")

\* ------------------------------------------------------------------- C9
\* The output field name of a mapped question.
NewName(q) ==
  CASE q = "hispanicLatinoSpanishOrigin" -> "origin"
    [] q = "school" -> "education"
    [] OTHER -> q

CategorySet(race) == {race[i] : i \in 1..Len(race)}

\* The reference shaping of an answers object.
Shaped(f) ==
  [k \in {NewName(q) : q \in Questions \cap DOMAIN f}
           \cup (IF "race" \in DOMAIN f THEN {"races"} ELSE {}) |->
     IF k = "races"
     THEN [cat \in CategorySet(f["race"]) |-> TRUE]
     ELSE LET q == CHOOSE x \in Questions \cap DOMAIN f : NewName(x) = k
          IN  (f[q] :> TRUE)]

Unmapped(f) == (DOMAIN f) \ (Questions \cup {"race"})

\* C10 as stated: no input key outside the six mapped questions and "race"
\* is a key of the payload, output field names included.
C10_UnmappedNeverInPayload ==
  \A p \in pings :
    args[p.call].op = "sendDemographicSurveyPing" =>
      \A k \in Unmapped(args[p.call].data.f) : k \notin DOMAIN p.payload

\* C10 as amended: an input key outside the six mapped questions and "race"
\* is a key of the payload only when it is the output name of a mapped
\* question that is present ("origin", "education") or is "races" with
\* "race" present, and the value under it is then the one shaped from that
\* question, never the value of the unmapped input key.
C10_UnmappedOnlyAsOutputName ==
  \A p \in pings :
    args[p.call].op = "sendDemographicSurveyPing" =>
      LET f == args[p.call].data.f
      IN  \A k \in Unmapped(f) :
            k \in DOMAIN p.payload =>
              \/ /\ k = "races"
                 /\ "race" \in DOMAIN f
                 /\ DOMAIN p.payload[k] = CategorySet(f["race"])
              \/ \E q \in Questions \cap DOMAIN f :
                   /\ NewName(q) = k
                   /\ DOMAIN p.payload[k] = {f[q]}

\* A survey with the unmapped keys "origin", "education" and "foo" and with
\* "school" answered was submitted: "education" is in the payload, "origin"
\* and "foo" are not.
C10_Witness ==
  \E p \in pings :
    LET f == args[p.call].data.f
    IN  /\ args[p.call].op = "sendDemographicSurveyPing"
        /\ {"origin", "education", "foo"} \subseteq DOMAIN f
        /\ "school" \in DOMAIN f
        /\ "hispanicLatinoSpanishOrigin" \notin DOMAIN f
        /\ "education" \in DOMAIN p.payload
        /\ "origin" \notin DOMAIN p.payload
        /\ "foo" \notin DOMAIN p.payload

====
